---- MODULE Spec2Model ----
(***************************************************************************)
(* Model of pulse_stream_server.py: the HTTP stream handler                *)
(* (StreamHandler.do_GET), the threaded listener (ThreadedTCPServer) and   *)
(* the start-up / shutdown sequence of main().                             *)
(*                                                                         *)
(* A session is one run of do_GET in its own handler thread.  The blocking *)
(* calls of the handler (Popen, Thread.start, stdout.read, wfile.write,    *)
(* terminate, wait, kill) are the steps of a session.  The encoder         *)
(* process and the client socket are the environment: the encoder may      *)
(* stall or exit, the client may stop reading or close the connection.     *)
(*                                                                         *)
(* The encoder's output is the byte sequence 1, 2, 3, ...; a read returns  *)
(* the next bytes in order, so loss, duplication and reordering in the     *)
(* relay are visible in the sink.                                          *)
(***************************************************************************)
EXTENDS Integers, Sequences, FiniteSets, TLC

\* ---------------------------------------------------------------- bounds
\* Most bytes an encoder produces in a session.
MaxSrc == 7
LongSrc == 17
SmallSrc == 1
TwoSrc == 6
\* Lines the encoder's stderr pipe holds before a write to it blocks.
ErrPipeCap == 2
\* Bytes the encoder produces in the session whose stdout reader runs ahead.
BufSrc == 10

\* The sizes of the relay, scaled down; their order (chunk < pre-buffer
\* read < pre-buffer) is the order of 2048 < 8192 < 40960 in the source.
chunk_size == 2
prebuffer_read_size == 3
prebuffer_size == 4
\* bufsize of Popen, the size of the buffer of process.stdout, scaled the
\* same way (40960 < 1048576).
bufsize == 5

\* Minimum block unit of the in-band metadata protocol (spec 4.3); the
\* smallest cadence a stream configuration could name.
MetaUnit == 16

Sessions == {"A", "B"}

\* URLs as sequences of parts, so that the scheme is a part of its own.
HTTP == "http://"
RINCON == "x-rincon-mp3radio://"
MAIN_URL == << HTTP, "host:8080", "/stream.mp3" >>

STREAM_PATH == "/stream.mp3"
ROOT_PATH == "/"
OTHER_PATH == "/favicon.ico"
STREAM_QUERY_PATH == "/stream.mp3?t=1"
INDEX_PATH == "/index.html"
Paths == {STREAM_PATH, ROOT_PATH, OTHER_PATH, STREAM_QUERY_PATH, INDEX_PATH}

VARIABLES
    mainPc,       \* position of main()
    clients,      \* the sessions whose client connects
    played,       \* result of play_stream_on_sonos: "none", "ok", "failed"
    pc,           \* pc[s]: position of the handler thread of session s
    path,         \* path[s]: request path
    status,       \* status[s]: HTTP status line sent (0: none yet)
    enc,          \* enc[s]: encoder process state
    drain,        \* drain[s]: stderr drain thread started
    client,       \* client[s]: state of the client socket
    srcRead,      \* srcRead[s]: bytes read from process.stdout so far
    srcCap,       \* srcCap[s]: most bytes the encoder produces
    prebuffer,    \* prebuffer[s]
    data,         \* data[s]: chunk held between a read and its write
    sink,         \* sink[s]: bytes the client socket accepted
    bytes_sent,   \* bytes_sent[s]
    preReads,     \* preReads[s]: pre-buffer reads that returned
    steadyReads,  \* steadyReads[s]: steady-state reads that returned
    nWrites,      \* nWrites[s]: calls of wfile.write (body) made
    firstWrite,   \* firstWrite[s]: argument of the first body write
    ended,        \* ended[s]: how the relay ended
    reported,     \* reported[s]: bytes-sent total logged (-1: none)
    failDelivered,\* failDelivered[s]: bytes accepted before the failing write
    termSent,     \* termSent[s]: process.terminate() called
    killSent,     \* killSent[s]: process.kill() called
    headers,      \* headers[s]: response headers sent, as <<name, value>>
    page,         \* page[s]: the status page was written as the body
    waited,       \* waited[s]: time units spent in process.wait(timeout=2)
    errbuf,       \* errbuf[s]: lines in the encoder's stderr pipe
    drainDied,    \* drainDied[s]: the stderr drain thread has ended
    fetched,      \* fetched[s]: bytes process.stdout pulled from the pipe
    exitCode,     \* exit status of the interpreter (-1: still running)
    bound,        \* the listener socket is bound
    serverThread, \* "none", "running" (serve_forever), "stopped"
    stream_url,   \* the URL handed to play_stream_on_sonos
    rendererFaulty, \* the renderer may fail a control call
    sonosCalls,   \* the calls play_stream_on_sonos issued, in order
    stopResult,   \* outcome of sonos.stop() at shutdown
    pipeAhead     \* most bytes process.stdout finds beyond a request

vars == << mainPc, clients, played, pc, path, status, enc, drain, client, srcRead,
           srcCap, prebuffer, data, sink, bytes_sent, preReads, steadyReads, nWrites,
           firstWrite, ended, reported, failDelivered, termSent, killSent,
           headers, page, waited, errbuf, drainDied, fetched, exitCode, bound,
           serverThread, stream_url, rendererFaulty, sonosCalls, stopResult,
           pipeAhead >>

\* Session state the relay steps below leave alone unless they say so.
xVars == << headers, page, waited, errbuf, drainDied, fetched >>

\* State of main() besides mainPc, clients, played and srcCap.
mainRest == << exitCode, bound, serverThread, stream_url, rendererFaulty,
              sonosCalls, stopResult, pipeAhead >>

sessVars == << pc, path, status, enc, drain, client, srcRead, prebuffer,
               data, sink, bytes_sent, preReads, steadyReads, nWrites, firstWrite, ended,
               reported, failDelivered, termSent, killSent, xVars >>

\* ---------------------------------------------------------------- helpers
\* The k bytes the encoder produced after the first `from` bytes.
SrcBytes(from, k) == [i \in 1..k |-> from + i]

\* prebuffer += data
PrebufAppendSwapped(buf, d) == d \o buf
PrebufAppend(buf, d) == buf \o d

\* while len(prebuffer) < prebuffer_size
PrebufferContinueNever(buf) == FALSE
PrebufferContinue(buf) == Len(buf) < prebuffer_size

\* bytes_sent = len(prebuffer)
BytesSentAfterPrebufferSize(buf) == prebuffer_size
BytesSentAfterPrebuffer(buf) == Len(buf)

\* The size asked of process.stdout.read in the steady-state loop.
SteadyReadSizeOfPrebuffer == prebuffer_read_size
SteadyReadSize == chunk_size

\* bytes_sent += len(data)
BytesSentAfterChunkFixed(bs, d) == bs + chunk_size
BytesSentAfterChunk(bs, d) == bs + Len(d)

\* what self.wfile.write(b) hands to the socket
WritePayloadWithMeta(b) == b \o << 0 >>
WritePayload(b) == b

\* Number of bytes in the sink that are not encoder output (in-band
\* metadata would be such bytes).
NonAudio(sq) == Cardinality({i \in 1..Len(sq) : sq[i] < 1})

\* The interpreter is alive: main() has not returned.  The handler threads
\* are daemon threads and die with it.
ProcessAlive == mainPc \notin {"exited", "bind_failed"}

\* serve_forever is running in the server thread.
Listening == mainPc \in {"play", "running", "sonos_stop", "shutdown"}

\* ThreadingMixIn: every request is handled in a thread of its own, so a
\* handler runs whenever the interpreter is alive.
HandlerRunsUnlessOtherBlocked(s) ==
    /\ ProcessAlive
    /\ \A t \in Sessions \ {s} : ~(pc[t] \in {"prebuf_write", "write"} /\ client[t] = "blocked")
HandlerRunsUnlessOtherFailed(s) ==
    /\ ProcessAlive
    /\ \A t \in Sessions \ {s} : ended[t] \in {"none", "eof"}
HandlerRuns(s) == ProcessAlive

InRelay(s) == pc[s] \in {"prebuf_read", "prebuf_write", "read", "write"}
Active(s) == pc[s] \notin {"idle", "done"}

\* ---------------------------------------------------------------- Init
InitSess ==
    /\ pc = [s \in Sessions |-> "idle"]
    /\ path = [s \in Sessions |-> "none"]
    /\ status = [s \in Sessions |-> 0]
    /\ enc = [s \in Sessions |-> "none"]
    /\ drain = [s \in Sessions |-> FALSE]
    /\ client = [s \in Sessions |-> "open"]
    /\ srcRead = [s \in Sessions |-> 0]
    /\ prebuffer = [s \in Sessions |-> << >>]
    /\ data = [s \in Sessions |-> << >>]
    /\ sink = [s \in Sessions |-> << >>]
    /\ bytes_sent = [s \in Sessions |-> 0]
    /\ preReads = [s \in Sessions |-> 0]
    /\ steadyReads = [s \in Sessions |-> 0]
    /\ nWrites = [s \in Sessions |-> 0]
    /\ firstWrite = [s \in Sessions |-> << >>]
    /\ ended = [s \in Sessions |-> "none"]
    /\ reported = [s \in Sessions |-> -1]
    /\ failDelivered = [s \in Sessions |-> -1]
    /\ termSent = [s \in Sessions |-> FALSE]
    /\ killSent = [s \in Sessions |-> FALSE]
    /\ headers = [s \in Sessions |-> {}]
    /\ page = [s \in Sessions |-> FALSE]
    /\ waited = [s \in Sessions |-> 0]
    /\ errbuf = [s \in Sessions |-> << >>]
    /\ drainDied = [s \in Sessions |-> FALSE]
    /\ fetched = [s \in Sessions |-> 0]

\* main() is about to create the listener; stream_url is the URL it built
\* (line 317).
InitMain ==
    /\ mainPc = "bind"
    /\ played = "none"
    /\ exitCode = -1
    /\ bound = FALSE
    /\ serverThread = "none"
    /\ stream_url = MAIN_URL
    /\ sonosCalls = << >>
    /\ stopResult = "none"

\* One client connects; its encoder produces up to MaxSrc bytes.
Init ==
    /\ InitMain
    /\ clients = {"A"}
    /\ rendererFaulty = TRUE
    /\ pipeAhead = 0
    /\ srcCap = [s \in Sessions |-> MaxSrc]
    /\ InitSess

\* One long session: the encoder produces up to LongSrc bytes.
InitLong ==
    /\ InitMain
    /\ clients = {"A"}
    /\ rendererFaulty = FALSE
    /\ pipeAhead = 0
    /\ srcCap = [s \in Sessions |-> LongSrc]
    /\ InitSess

\* One session whose encoder may be ahead of the relay by as much as the
\* buffer of process.stdout holds.
InitBuf ==
    /\ InitMain
    /\ clients = {"A"}
    /\ rendererFaulty = FALSE
    /\ pipeAhead = bufsize
    /\ srcCap = [s \in Sessions |-> BufSrc]
    /\ InitSess

\* The stream URLs handed to play_stream_on_sonos: the one main() builds,
\* one holding http:// a second time, one with another scheme, and one in
\* which http:// is not at the start.
NESTED_URL == << HTTP, "host:8080", "/stream.mp3?from=", HTTP, "other" >>
HTTPS_URL == << "https://", "host:8080", "/stream.mp3" >>
INNER_URL == << "proxy:", HTTP, "host:8080", "/stream.mp3" >>
StreamUrls == {MAIN_URL, NESTED_URL, HTTPS_URL, INNER_URL}

InitSonos ==
    /\ mainPc = "bind"
    /\ played = "none"
    /\ exitCode = -1
    /\ bound = FALSE
    /\ serverThread = "none"
    /\ stream_url \in StreamUrls
    /\ sonosCalls = << >>
    /\ stopResult = "none"
    /\ clients = {"A"}
    /\ rendererFaulty = TRUE
    /\ pipeAhead = 0
    /\ srcCap = [s \in Sessions |-> SmallSrc]
    /\ InitSess

\* Two clients connect; the encoder of A produces up to SmallSrc bytes, the
\* encoder of B up to TwoSrc bytes.
InitTwo ==
    /\ InitMain
    /\ clients = Sessions
    /\ rendererFaulty = FALSE
    /\ pipeAhead = 0
    /\ srcCap = [s \in Sessions |-> IF s = "A" THEN SmallSrc ELSE TwoSrc]
    /\ InitSess

\* ---------------------------------------------------------------- main()
\* Where main goes when ThreadedTCPServer(...) returns, and where it goes
\* when the constructor raises (the OSError of bind is not caught).
AfterBindPlayFirst == "play"
AfterBind == "start_thread"
BindFailureIgnored == "start_thread"
BindFailureTarget == "bind_failed"

\* httpd = ThreadedTCPServer(("", args.port), StreamHandler): the socket is
\* bound, or the constructor raises and the interpreter exits with the
\* status of an uncaught exception.
Bind ==
    /\ mainPc = "bind"
    /\ \/ /\ bound' = TRUE
          /\ mainPc' = AfterBind
          /\ UNCHANGED exitCode
       \/ /\ mainPc' = BindFailureTarget
          /\ exitCode' = 1
          /\ UNCHANGED bound
    /\ UNCHANGED << played, clients, srcCap, sessVars, serverThread, stream_url,
                    rendererFaulty, sonosCalls, stopResult, pipeAhead >>

\* server_thread.start(); time.sleep(1)
StartServerThread ==
    /\ mainPc = "start_thread"
    /\ serverThread' = "running"
    /\ mainPc' = "play"
    /\ UNCHANGED << played, clients, srcCap, sessVars, exitCode, bound, stream_url,
                    rendererFaulty, sonosCalls, stopResult, pipeAhead >>

\* stream_url.replace('http://', 'x-rincon-mp3radio://', count) on a URL
\* given as its sequence of parts: with count = 1 only the first
\* occurrence is replaced.
RECURSIVE ReplaceEvery(_)
ReplaceEvery(url) ==
    IF url = << >> THEN << >>
    ELSE << IF Head(url) = HTTP THEN RINCON ELSE Head(url) >> \o ReplaceEvery(Tail(url))

RECURSIVE ReplaceFirst(_)
ReplaceFirst(url) ==
    IF url = << >> THEN << >>
    ELSE IF Head(url) = HTTP THEN << RINCON >> \o Tail(url)
    ELSE << Head(url) >> \o ReplaceFirst(Tail(url))

\* stream_url.startswith('http://')
StartsWithHttp(url) == url # << >> /\ Head(url) = HTTP

\* radio_url of play_stream_on_sonos.
RadioUrlEvery(url) == IF StartsWithHttp(url) THEN ReplaceEvery(url) ELSE url
RadioUrl(url) == IF StartsWithHttp(url) THEN ReplaceFirst(url) ELSE url

\* The calls play_stream_on_sonos makes on the renderer when none raises.
PushOps(url) == << << "stop" >>, << "clear_queue" >>, << "play_uri" >> \o RadioUrl(url) >>

\* The outcomes a renderer call may have.
CallResults == IF rendererFaulty THEN {"ok", "raised"} ELSE {"ok"}

\* The calls issued when the first n succeed: a raising call is the last
\* one, `except Exception` returns False.
PushCalls(url, n) ==
    [i \in 1..(IF n < Len(PushOps(url)) THEN n + 1 ELSE n) |->
        << PushOps(url)[i][1], IF i <= n THEN "ok" ELSE "raised" >>
            \o Tail(PushOps(url)[i])]

\* Where main goes with the result of play_stream_on_sonos: both branches
\* of the `if` only print.
AfterPlayExitOnFailure(result) == IF result = "ok" THEN "running" ELSE "exited"
AfterPlay(result) == "running"

\* if play_stream_on_sonos(sonos, stream_url): ... else: ...
PlayOnSonos ==
    /\ mainPc = "play"
    /\ \E n \in 0..Len(PushOps(stream_url)) :
          /\ n < Len(PushOps(stream_url)) => "raised" \in CallResults
          /\ sonosCalls' = PushCalls(stream_url, n)
          /\ played' = IF n = Len(PushOps(stream_url)) THEN "ok" ELSE "failed"
    /\ mainPc' = AfterPlay(played')
    /\ UNCHANGED << clients, srcCap, sessVars, exitCode, bound, serverThread,
                    stream_url, rendererFaulty, stopResult, pipeAhead >>

\* KeyboardInterrupt in the sleep loop
Interrupt ==
    /\ mainPc = "running"
    /\ mainPc' = "sonos_stop"
    /\ UNCHANGED << played, clients, srcCap, sessVars, mainRest >>

\* sonos.stop() inside try/except: pass; either outcome goes on
SonosStop ==
    /\ mainPc = "sonos_stop"
    /\ stopResult' \in CallResults
    /\ mainPc' = "shutdown"
    /\ UNCHANGED << played, clients, srcCap, sessVars, exitCode, bound, serverThread,
                    stream_url, rendererFaulty, sonosCalls, pipeAhead >>

\* httpd.shutdown(); main returns and the interpreter exits
Shutdown ==
    /\ mainPc = "shutdown"
    /\ serverThread' = "stopped"
    /\ exitCode' = 0
    /\ mainPc' = "exited"
    /\ UNCHANGED << played, clients, srcCap, sessVars, bound, stream_url,
                    rendererFaulty, sonosCalls, stopResult, pipeAhead >>

\* ---------------------------------------------------------------- do_GET
\* UNCHANGED for everything a handler step of one session leaves alone.
HandlerFrame == UNCHANGED << mainPc, clients, played, srcCap, mainRest >>
MainUnchanged == HandlerFrame /\ UNCHANGED xVars

\* Where the handler goes once the pre-buffer loop is left:
\* `if prebuffer:` write it, else fall into the steady-state loop.
AfterPrebufferAlwaysWrite(buf) == "prebuf_write"
AfterPrebuffer(buf) == IF buf # << >> THEN "prebuf_write" ELSE "read"

\* The branch of do_GET a request path takes: self.path is compared whole,
\* query string included.
RouteIgnoringQuery(p) ==
    IF p \in {STREAM_PATH, STREAM_QUERY_PATH} THEN "stream"
    ELSE IF p = ROOT_PATH THEN "page" ELSE "notfound"
Route(p) ==
    IF p = STREAM_PATH THEN "stream"
    ELSE IF p = ROOT_PATH THEN "page" ELSE "notfound"

\* The headers each branch sends (send_error sends those of the library's
\* error page).
HeadersFor(r) ==
    IF r = "stream" THEN
        { << "Content-Type", "audio/mpeg" >>,
          << "Content-Length", "107374182400" >>,
          << "Cache-Control", "no-cache" >>,
          << "Connection", "keep-alive" >> }
    ELSE IF r = "page" THEN { << "Content-Type", "text/html" >> }
    ELSE { << "Content-Type", "text/html;charset=utf-8" >>,
           << "Connection", "close" >> }

\* The response do_GET starts for a request path: the status line sent first.
StatusFor(p) == IF Route(p) \in {"stream", "page"} THEN 200 ELSE 404

\* A request arrives and its handler thread starts do_GET: the status line
\* and headers go out before anything else is done.
DoGET(s, p) ==
    /\ Listening
    /\ s \in clients
    /\ pc[s] = "idle"
    /\ path' = [path EXCEPT ![s] = p]
    /\ status' = [status EXCEPT ![s] = StatusFor(p)]
    /\ headers' = [headers EXCEPT ![s] = HeadersFor(Route(p))]
    /\ page' = [page EXCEPT ![s] = (Route(p) = "page")]
    /\ pc' = [pc EXCEPT ![s] = IF Route(p) = "stream" THEN "popen" ELSE "done"]
    /\ HandlerFrame
    /\ UNCHANGED << waited, errbuf, drainDied, fetched >>
    /\ UNCHANGED << enc, drain, client, srcRead, prebuffer, data, sink,
                    bytes_sent, preReads, steadyReads, nWrites, firstWrite, ended, reported,
                    failDelivered, termSent, killSent >>

\* process = subprocess.Popen(ffmpeg_cmd, ...): the process starts, or Popen
\* raises (missing binary, permission) into `except Exception`.
Popen(s) ==
    /\ HandlerRuns(s)
    /\ pc[s] = "popen"
    /\ \/ /\ enc' = [enc EXCEPT ![s] = "flowing"]
          /\ pc' = [pc EXCEPT ![s] = "thread_start"]
          /\ UNCHANGED ended
       \/ /\ ended' = [ended EXCEPT ![s] = "spawn_error"]
          /\ pc' = [pc EXCEPT ![s] = "done"]
          /\ UNCHANGED enc
    /\ MainUnchanged
    /\ UNCHANGED << path, status, drain, client, srcRead, prebuffer, data,
                    sink, bytes_sent, preReads, steadyReads, nWrites, firstWrite, reported,
                    failDelivered, termSent, killSent >>

\* Where an exception raised by stderr_thread.start() lands: the call is
\* outside the inner try, so only `except Exception` sees it.
ThreadStartFailureTarget == "done"

\* stderr_thread.start(), then the relay's locals are set up and the
\* pre-buffer loop condition is tested for the first time.
ThreadStart(s) ==
    /\ HandlerRuns(s)
    /\ pc[s] = "thread_start"
    /\ \/ /\ drain' = [drain EXCEPT ![s] = TRUE]
          /\ pc' = [pc EXCEPT ![s] =
                 IF PrebufferContinue(<< >>) THEN "prebuf_read"
                 ELSE AfterPrebuffer(<< >>)]
          /\ UNCHANGED ended
       \/ /\ ended' = [ended EXCEPT ![s] = "error"]
          /\ pc' = [pc EXCEPT ![s] = ThreadStartFailureTarget]
          /\ UNCHANGED drain
    /\ MainUnchanged
    /\ UNCHANGED << path, status, enc, client, srcRead, prebuffer, data,
                    sink, bytes_sent, preReads, steadyReads, nWrites, firstWrite, reported,
                    failDelivered, termSent, killSent >>

\* The encoder state after k more bytes were taken from it: it produces at
\* most srcCap[s] bytes and then nothing more until it exits.
EncAfterRead(s, k) == IF srcRead[s] + k >= srcCap[s] THEN "stalled" ELSE enc[s]

\* process.stdout is a buffered reader of bufsize bytes: when a read finds
\* fewer bytes in the buffer than it has to return, the reader takes from the
\* pipe whatever the encoder has written so far, up to the room in the
\* buffer.  The total taken from the pipe once the first k unread bytes are
\* returned, with the encoder at most pipeAhead bytes ahead of the relay:
FetchedAfter(s, k) ==
    IF fetched[s] >= srcRead[s] + k THEN {fetched[s]}
    ELSE {f \in (srcRead[s] + k)..srcCap[s] :
             f - (srcRead[s] + k) <= pipeAhead /\ f - srcRead[s] <= bufsize + k}

\* data = process.stdout.read(8192) in the pre-buffer loop.  The read
\* returns at most the bytes asked for; every shorter non-empty result is
\* admitted, and an empty one once the encoder has closed its stdout.
PrebufRead(s) ==
    /\ HandlerRuns(s)
    /\ pc[s] = "prebuf_read"
    /\ \/ \E k \in 1..prebuffer_read_size :
            /\ enc[s] = "flowing" \/ srcRead[s] + k <= fetched[s]
            /\ srcRead[s] + k <= srcCap[s]
            /\ \E f \in FetchedAfter(s, k) : fetched' = [fetched EXCEPT ![s] = f]
            /\ LET buf == PrebufAppend(prebuffer[s], SrcBytes(srcRead[s], k)) IN
                 /\ prebuffer' = [prebuffer EXCEPT ![s] = buf]
                 /\ pc' = [pc EXCEPT ![s] =
                        IF PrebufferContinue(buf) THEN "prebuf_read"
                        ELSE AfterPrebuffer(buf)]
            /\ srcRead' = [srcRead EXCEPT ![s] = @ + k]
            /\ enc' = [enc EXCEPT ![s] = EncAfterRead(s, k)]
       \/ /\ enc[s] = "exited"
          /\ fetched[s] <= srcRead[s]
          /\ pc' = [pc EXCEPT ![s] = AfterPrebuffer(prebuffer[s])]
          /\ UNCHANGED << prebuffer, srcRead, enc, fetched >>
    /\ preReads' = [preReads EXCEPT ![s] = @ + 1]
    /\ HandlerFrame
    /\ UNCHANGED << headers, page, waited, errbuf, drainDied >>
    /\ UNCHANGED << path, status, drain, client, data, sink, bytes_sent, steadyReads,
                    nWrites, firstWrite, ended, reported, failDelivered,
                    termSent, killSent >>

\* A body write that raises (BrokenPipeError, ConnectionResetError): the
\* socket took j bytes of b before the error; `except (..., OSError)` logs
\* bytes_sent and the finally block follows.
WriteRaises(s, b) ==
    /\ client[s] = "closed"
    /\ \E j \in 0..(Len(b) - 1) :
         sink' = [sink EXCEPT ![s] = @ \o SubSeq(WritePayload(b), 1, j)]
    /\ failDelivered' = [failDelivered EXCEPT ![s] = Len(sink[s])]
    /\ ended' = [ended EXCEPT ![s] = "disconnect"]
    /\ reported' = [reported EXCEPT ![s] = bytes_sent[s]]
    /\ pc' = [pc EXCEPT ![s] = "terminate"]
    /\ UNCHANGED bytes_sent

\* self.wfile.write(prebuffer); bytes_sent = len(prebuffer)
PrebufWrite(s) ==
    /\ HandlerRuns(s)
    /\ pc[s] = "prebuf_write"
    /\ \/ /\ client[s] = "open"
          /\ sink' = [sink EXCEPT ![s] = @ \o WritePayload(prebuffer[s])]
          /\ bytes_sent' = [bytes_sent EXCEPT ![s] = BytesSentAfterPrebuffer(prebuffer[s])]
          /\ pc' = [pc EXCEPT ![s] = "read"]
          /\ UNCHANGED << ended, reported, failDelivered >>
       \/ WriteRaises(s, prebuffer[s])
    /\ nWrites' = [nWrites EXCEPT ![s] = @ + 1]
    /\ firstWrite' = [firstWrite EXCEPT ![s] = IF nWrites[s] = 0 THEN prebuffer[s] ELSE @]
    /\ MainUnchanged
    /\ UNCHANGED << path, status, enc, drain, client, srcRead, prebuffer,
                    data, preReads, steadyReads, termSent, killSent >>

\* data = process.stdout.read(chunk_size) in the steady-state loop; an empty
\* result breaks the loop and "Stream ended. Total sent: ..." is logged.
Read(s) ==
    /\ HandlerRuns(s)
    /\ pc[s] = "read"
    /\ \/ \E k \in 1..SteadyReadSize :
            /\ enc[s] = "flowing" \/ srcRead[s] + k <= fetched[s]
            /\ srcRead[s] + k <= srcCap[s]
            /\ \E f \in FetchedAfter(s, k) : fetched' = [fetched EXCEPT ![s] = f]
            /\ data' = [data EXCEPT ![s] = SrcBytes(srcRead[s], k)]
            /\ srcRead' = [srcRead EXCEPT ![s] = @ + k]
            /\ enc' = [enc EXCEPT ![s] = EncAfterRead(s, k)]
            /\ pc' = [pc EXCEPT ![s] = "write"]
            /\ UNCHANGED << ended, reported >>
       \/ /\ enc[s] = "exited"
          /\ fetched[s] <= srcRead[s]
          /\ ended' = [ended EXCEPT ![s] = "eof"]
          /\ reported' = [reported EXCEPT ![s] = bytes_sent[s]]
          /\ pc' = [pc EXCEPT ![s] = "terminate"]
          /\ UNCHANGED << data, srcRead, enc, fetched >>
    /\ steadyReads' = [steadyReads EXCEPT ![s] = @ + 1]
    /\ HandlerFrame
    /\ UNCHANGED << headers, page, waited, errbuf, drainDied >>
    /\ UNCHANGED << path, status, drain, client, prebuffer, sink, bytes_sent, preReads,
                    nWrites, firstWrite, failDelivered, termSent, killSent >>

\* self.wfile.write(data); bytes_sent += len(data)
Write(s) ==
    /\ HandlerRuns(s)
    /\ pc[s] = "write"
    /\ \/ /\ client[s] = "open"
          /\ sink' = [sink EXCEPT ![s] = @ \o WritePayload(data[s])]
          /\ bytes_sent' = [bytes_sent EXCEPT ![s] = BytesSentAfterChunk(@, data[s])]
          /\ pc' = [pc EXCEPT ![s] = "read"]
          /\ UNCHANGED << ended, reported, failDelivered >>
       \/ WriteRaises(s, data[s])
    /\ nWrites' = [nWrites EXCEPT ![s] = @ + 1]
    /\ firstWrite' = [firstWrite EXCEPT ![s] = IF nWrites[s] = 0 THEN data[s] ELSE @]
    /\ MainUnchanged
    /\ UNCHANGED << path, status, enc, drain, client, srcRead, prebuffer,
                    data, preReads, steadyReads, termSent, killSent >>

\* Any other exception raised inside the inner try (not an OSError): the
\* finally block runs and `except Exception` logs it.
HandlerRaises(s) ==
    /\ HandlerRuns(s)
    /\ InRelay(s)
    /\ ended' = [ended EXCEPT ![s] = "error"]
    /\ pc' = [pc EXCEPT ![s] = "terminate"]
    /\ MainUnchanged
    /\ UNCHANGED << path, status, enc, drain, client, srcRead, prebuffer,
                    data, sink, bytes_sent, preReads, steadyReads, nWrites, firstWrite,
                    reported, failDelivered, termSent, killSent >>

\* finally: process.terminate()
Terminate(s) ==
    /\ HandlerRuns(s)
    /\ pc[s] = "terminate"
    /\ termSent' = [termSent EXCEPT ![s] = TRUE]
    /\ pc' = [pc EXCEPT ![s] = "wait"]
    /\ MainUnchanged
    /\ UNCHANGED << path, status, enc, drain, client, srcRead, prebuffer,
                    data, sink, bytes_sent, preReads, steadyReads, nWrites, firstWrite,
                    ended, reported, failDelivered, killSent >>

\* What follows `except subprocess.TimeoutExpired`.
AfterTimeout == "kill"

\* The timeout of process.wait in the finally block, in time units.
WAIT_TIMEOUT == 2

\* Whether process.wait(timeout) raises TimeoutExpired after w units.
WaitExpiredAtOnce(w) == TRUE
WaitExpired(w) == w >= WAIT_TIMEOUT

\* process.wait(timeout=2): the process has exited (by itself or on the
\* signal) within the timeout and is reaped, or a time unit passes with the
\* process still running, or the timeout expires with it still running.
Wait(s) ==
    /\ HandlerRuns(s)
    /\ pc[s] = "wait"
    /\ \/ /\ enc' = [enc EXCEPT ![s] = "reaped"]
          /\ pc' = [pc EXCEPT ![s] = "done"]
          /\ UNCHANGED waited
       \/ /\ enc[s] # "exited"
          /\ ~WaitExpired(waited[s])
          /\ waited' = [waited EXCEPT ![s] = @ + 1]
          /\ UNCHANGED << enc, pc >>
       \/ /\ enc[s] # "exited"
          /\ WaitExpired(waited[s])
          /\ pc' = [pc EXCEPT ![s] = AfterTimeout]
          /\ UNCHANGED << enc, waited >>
    /\ HandlerFrame
    /\ UNCHANGED << headers, page, errbuf, drainDied, fetched >>
    /\ UNCHANGED << path, status, drain, client, srcRead, prebuffer, data,
                    sink, bytes_sent, preReads, steadyReads, nWrites, firstWrite, ended,
                    reported, failDelivered, termSent, killSent >>

\* process.kill(); process.wait()
Kill(s) ==
    /\ HandlerRuns(s)
    /\ pc[s] = "kill"
    /\ killSent' = [killSent EXCEPT ![s] = TRUE]
    /\ enc' = [enc EXCEPT ![s] = "reaped"]
    /\ pc' = [pc EXCEPT ![s] = "done"]
    /\ MainUnchanged
    /\ UNCHANGED << path, status, drain, client, srcRead, prebuffer, data,
                    sink, bytes_sent, preReads, steadyReads, nWrites, firstWrite, ended,
                    reported, failDelivered, termSent >>

\* ---------------------------------------------------------------- environment
EnvUnchanged ==
    UNCHANGED << mainRest, xVars, mainPc, clients, played, srcCap, pc, path, status, drain, srcRead,
                 prebuffer, data, sink, bytes_sent, preReads, steadyReads, nWrites,
                 firstWrite, ended, reported, failDelivered, termSent,
                 killSent >>

\* The encoder stops producing output without closing its stdout.
EncoderStall(s) ==
    /\ ProcessAlive
    /\ pc[s] \in {"prebuf_read", "read"}
    /\ enc[s] = "flowing"
    /\ enc' = [enc EXCEPT ![s] = "stalled"]
    /\ UNCHANGED client
    /\ EnvUnchanged

\* The encoder exits by itself: its stdout reaches EOF.
EncoderExit(s) ==
    /\ ProcessAlive
    /\ pc[s] \in {"prebuf_read", "read"}
    /\ enc[s] \in {"flowing", "stalled"}
    /\ enc' = [enc EXCEPT ![s] = "exited"]
    /\ UNCHANGED client
    /\ EnvUnchanged

\* The client stops reading: the socket buffer is full and a write blocks.
ClientBlock(s) ==
    /\ ProcessAlive
    /\ pc[s] \in {"prebuf_write", "write"}
    /\ client[s] = "open"
    /\ client' = [client EXCEPT ![s] = "blocked"]
    /\ UNCHANGED enc
    /\ EnvUnchanged

\* The client reads again.
ClientUnblock(s) ==
    /\ ProcessAlive
    /\ client[s] = "blocked"
    /\ client' = [client EXCEPT ![s] = "open"]
    /\ UNCHANGED enc
    /\ EnvUnchanged

\* The client closes its connection.
ClientClose(s) ==
    /\ ProcessAlive
    /\ InRelay(s)
    /\ client[s] \in {"open", "blocked"}
    /\ client' = [client EXCEPT ![s] = "closed"]
    /\ UNCHANGED enc
    /\ EnvUnchanged

\* ---------------------------------------------------------------- stderr
\* The lines ffmpeg may write to stderr: text that decodes as UTF-8, or
\* bytes that do not.
StderrLines == {"utf8", "not_utf8"}

\* line.decode('utf-8') in monitor_ffmpeg_stderr: whether it raises.
DecodeRaises(l) == l = "not_utf8"

\* ffmpeg writes a diagnostic line into its stderr pipe.
EncoderLogs(s, l) ==
    /\ ProcessAlive
    /\ enc[s] = "flowing"
    /\ Len(errbuf[s]) < ErrPipeCap
    /\ errbuf' = [errbuf EXCEPT ![s] = Append(@, l)]
    /\ HandlerFrame
    /\ UNCHANGED << headers, page, waited, drainDied, fetched >>
    /\ UNCHANGED << pc, path, status, enc, drain, client, srcRead, prebuffer, data,
                    sink, bytes_sent, preReads, steadyReads, nWrites, firstWrite,
                    ended, reported, failDelivered, termSent, killSent >>

\* ffmpeg writes a diagnostic line while the pipe is full: the write blocks
\* and with it the whole encoder.
EncoderLogBlocks(s) ==
    /\ ProcessAlive
    /\ enc[s] = "flowing"
    /\ Len(errbuf[s]) = ErrPipeCap
    /\ enc' = [enc EXCEPT ![s] = "stderr_blocked"]
    /\ UNCHANGED client
    /\ EnvUnchanged

\* One iteration of `for line in process.stderr` in the drain thread: the
\* line leaves the pipe, is decoded and printed; an exception of decode ends
\* the thread.
DrainLine(s) ==
    /\ ProcessAlive
    /\ drain[s]
    /\ ~drainDied[s]
    /\ errbuf[s] # << >>
    /\ errbuf' = [errbuf EXCEPT ![s] = Tail(@)]
    /\ drainDied' = [drainDied EXCEPT ![s] = DecodeRaises(Head(errbuf[s]))]
    /\ enc' = [enc EXCEPT ![s] = IF @ = "stderr_blocked" THEN "flowing" ELSE @]
    /\ HandlerFrame
    /\ UNCHANGED << headers, page, waited, fetched >>
    /\ UNCHANGED << pc, path, status, drain, client, srcRead, prebuffer, data,
                    sink, bytes_sent, preReads, steadyReads, nWrites, firstWrite,
                    ended, reported, failDelivered, termSent, killSent >>

\* ---------------------------------------------------------------- Next
HandlerStep(s) ==
    \/ Popen(s)
    \/ ThreadStart(s)
    \/ PrebufRead(s)
    \/ PrebufWrite(s)
    \/ Read(s)
    \/ Write(s)
    \/ Terminate(s)
    \/ Wait(s)
    \/ Kill(s)

MainStep ==
    \/ Bind
    \/ StartServerThread
    \/ PlayOnSonos
    \/ SonosStop
    \/ Shutdown

Next ==
    \/ MainStep
    \/ Interrupt
    \/ \E s \in Sessions, p \in Paths : DoGET(s, p)
    \/ \E s \in Sessions : HandlerStep(s)
    \/ \E s \in Sessions : HandlerRaises(s)
    \/ \E s \in Sessions : EncoderStall(s)
    \/ \E s \in Sessions : EncoderExit(s)
    \/ \E s \in Sessions : ClientBlock(s)
    \/ \E s \in Sessions : ClientUnblock(s)
    \/ \E s \in Sessions : ClientClose(s)

Spec == Init /\ [][Next]_vars

SpecLong == InitLong /\ [][Next]_vars

SpecBuf == InitBuf /\ [][Next]_vars

\* main() alone over the stream URLs play_stream_on_sonos may be given;
\* clients only ask for the status page or a path that does not exist.
NextSonos ==
    \/ MainStep
    \/ Interrupt
    \/ \E s \in Sessions, p \in {ROOT_PATH, OTHER_PATH} : DoGET(s, p)

SpecSonos == InitSonos /\ [][NextSonos]_vars

\* The server with the encoder's diagnostic output and its drain thread.
NextDiag ==
    \/ Next
    \/ \E s \in Sessions, l \in StderrLines : EncoderLogs(s, l)
    \/ \E s \in Sessions : EncoderLogBlocks(s)
    \/ \E s \in Sessions : DrainLine(s)

SpecDiag == Init /\ [][NextDiag]_vars

\* Two concurrent sessions while the server runs: both clients request the
\* stream, no interrupt arrives and no exception other than a write error is
\* raised in a handler.
NextTwo ==
    \/ Bind
    \/ StartServerThread
    \/ PlayOnSonos
    \/ \E s \in Sessions : DoGET(s, STREAM_PATH)
    \/ \E s \in Sessions : HandlerStep(s)
    \/ \E s \in Sessions : EncoderStall(s)
    \/ \E s \in Sessions : EncoderExit(s)
    \/ \E s \in Sessions : ClientBlock(s)
    \/ \E s \in Sessions : ClientUnblock(s)
    \/ \E s \in Sessions : ClientClose(s)

SpecTwo == InitTwo /\ [][NextTwo]_vars

\* Two concurrent sessions in which any exception may also be raised inside
\* a handler.
NextTwoErr ==
    \/ NextTwo
    \/ \E s \in Sessions : HandlerRaises(s)

SpecTwoErr == InitTwo /\ [][NextTwoErr]_vars


\* The handler threads and main() are scheduled by the operating system:
\* an enabled step of a thread is eventually taken.  The encoder, the
\* client and the interrupt are the environment and owe nothing.
Fairness ==
    /\ WF_vars(MainStep)
    /\ \A s \in Sessions : WF_vars(HandlerStep(s))

FairSpec == Init /\ [][Next]_vars /\ Fairness

FairSpecTwo == InitTwo /\ [][NextTwo]_vars /\ Fairness

\* ---------------------------------------------------------------- claims
TornDown(s) == pc[s] \in {"terminate", "wait", "kill", "done"}

\* C1: when Popen fails for a GET on the stream path, the client receives a
\* server-error status (never a 200) and the session makes no pre-buffer
\* read and no body write.
C1_SpawnFailureIsServerError ==
    \A s \in Sessions :
        ended[s] = "spawn_error" =>
            /\ status[s] >= 500
            /\ preReads[s] = 0 /\ steadyReads[s] = 0
            /\ nWrites[s] = 0 /\ sink[s] = << >>

\* C2: a finished session whose encoder was spawned has reaped it, however
\* the session ended (EOF, write error, any exception after the spawn).
C2_FinishedSessionReaped ==
    \A s \in Sessions :
        (pc[s] = "done" /\ enc[s] # "none") => enc[s] = "reaped"

\* C3: the bytes the client received are a prefix of the bytes read from the
\* encoder, in read order, and are all of them when the session ends by
\* source EOF: nothing lost, duplicated or reordered.
C3_SinkIsPrefixOfSource ==
    \A s \in Sessions :
        /\ Len(sink[s]) <= srcRead[s]
        /\ sink[s] = SrcBytes(0, Len(sink[s]))
        /\ ended[s] = "eof" => sink[s] = SrcBytes(0, srcRead[s])

C3_Witness ==
    \E s \in Sessions :
        /\ ended[s] = "eof"
        /\ Len(prebuffer[s]) >= prebuffer_size
        /\ Len(sink[s]) > Len(prebuffer[s])
        /\ preReads[s] + steadyReads[s] > 4

\* C4: once a body write has been made, the first one was a single write of
\* the whole pre-buffer, made before any steady-state read, and the
\* pre-buffer then held prebuffer_size bytes or more, or else everything the
\* source delivered before its EOF.
C4_PrebufferBeforeFirstWrite ==
    \A s \in Sessions :
        /\ (nWrites[s] = 0 /\ prebuffer[s] # << >>) => steadyReads[s] = 0
        /\ nWrites[s] > 0 =>
              /\ firstWrite[s] = prebuffer[s]
              /\ firstWrite[s] = SrcBytes(0, Len(firstWrite[s]))
              /\ \/ Len(firstWrite[s]) >= prebuffer_size
                 \/ /\ enc[s] \in {"exited", "reaped"}
                    /\ srcRead[s] = Len(firstWrite[s])

C4_Witness ==
    \E s \in Sessions :
        /\ nWrites[s] > 0
        /\ Len(firstWrite[s]) > prebuffer_size
        /\ preReads[s] >= 2
        /\ steadyReads[s] > 0

\* The cadences a stream configuration could name within the bound: the
\* positive multiples of the block unit.
Cadences == {m \in 1..LongSrc : m % MetaUnit = 0}

\* C5 (as claimed): for every cadence M, a session that has forwarded N
\* audio bytes has emitted floor(N / M) metadata blocks.
C5_MetadataBlockPerCadence ==
    \A s \in Sessions : \A M \in Cadences :
        NonAudio(sink[s]) = (Len(sink[s]) - NonAudio(sink[s])) \div M

\* C5 (amended): a session emits no metadata block however many audio
\* bytes it forwards; every byte the client receives is encoder output.
C5_NoMetadataBlocks ==
    \A s \in Sessions :
        /\ NonAudio(sink[s]) = 0
        /\ \A i \in 1..Len(sink[s]) : sink[s][i] = i

C5_Witness ==
    \E s \in Sessions : \E M \in Cadences :
        /\ Len(sink[s]) >= M
        /\ steadyReads[s] > 0

\* C6: when a body write raises a disconnect error after k bytes were
\* delivered, no further read or write is made, the logged bytes-sent total
\* is k, and the encoder is terminated and reaped.
C6_DisconnectState ==
    \A s \in Sessions :
        ended[s] = "disconnect" =>
            /\ TornDown(s)
            /\ reported[s] = failDelivered[s]
            /\ reported[s] = bytes_sent[s]
            /\ pc[s] = "done" => (termSent[s] /\ enc[s] = "reaped")

C6_NoRetry ==
    \A s \in Sessions :
        ended[s] = "disconnect" =>
            /\ preReads'[s] = preReads[s]
            /\ steadyReads'[s] = steadyReads[s]
            /\ nWrites'[s] = nWrites[s]
            /\ sink'[s] = sink[s]
            /\ reported'[s] = reported[s]

FirstReadEmpty(s) == preReads[s] >= 1 /\ srcRead[s] = 0

\* C7: when the first read returns zero bytes, the session (unless an
\* unrelated exception is raised in the handler) ends by EOF with zero bytes
\* sent and logged, no body write, no metadata, the 200 status already sent
\* and nothing after it, and the encoder terminated and reaped.
C7_EmptyState ==
    \A s \in Sessions :
        (FirstReadEmpty(s) /\ ended[s] # "error") =>
            /\ bytes_sent[s] = 0
            /\ nWrites[s] = 0
            /\ sink[s] = << >>
            /\ status[s] = 200
            /\ ended[s] \in {"none", "eof"}
            /\ TornDown(s) => (ended[s] = "eof" /\ reported[s] = 0)
            /\ pc[s] = "done" => (termSent[s] /\ enc[s] = "reaped")

C7_EmptySourceEndsNormally ==
    /\ []C7_EmptyState
    /\ \A s \in Sessions :
         FirstReadEmpty(s) ~> (pc[s] = "done" \/ ~ProcessAlive)

C7_Witness ==
    \E s \in Sessions :
        /\ FirstReadEmpty(s)
        /\ pc[s] = "done"
        /\ ended[s] = "eof"

\* Session s is blocked in a write to a client that does not read.
Blocked(s) == pc[s] \in {"prebuf_write", "write"} /\ client[s] = "blocked"

\* The next read or write of session s can complete as far as its own
\* encoder and its own client go.
OwnReady(s) ==
    \/ pc[s] \in {"prebuf_read", "read"} /\ enc[s] = "flowing" /\ srcRead[s] < srcCap[s]
    \/ pc[s] \in {"prebuf_read", "read"} /\ enc[s] = "exited"
    \/ pc[s] \in {"prebuf_write", "write"} /\ client[s] \in {"open", "closed"}

\* C8: whatever the state of another session A, blocked in a write
\* included, the next read or write of session B can be taken when B's own
\* encoder and client allow it, and while A stays blocked a write of B to
\* an open client completes.
C8_Independent ==
    \A a \in Sessions : \A b \in Sessions \ {a} :
        (Blocked(a) /\ OwnReady(b)) => ENABLED HandlerStep(b)

C8_SessionsIndependent ==
    /\ []C8_Independent
    /\ \A a \in Sessions : \A b \in Sessions \ {a} :
         (Blocked(a) /\ pc[b] = "write" /\ client[b] = "open") ~>
             (~Blocked(a) \/ pc[b] # "write" \/ client[b] # "open")

C8_Witness ==
    /\ Blocked("A")
    /\ pc["B"] = "write"
    /\ client["B"] = "open"
    /\ Len(sink["B"]) > prebuffer_size

\* C9: after the shutdown in main completes, every session that had
\* started its relay has stopped it and its encoder process is terminated
\* and reaped.
C9_ShutdownReapsEncoders ==
    mainPc = "exited" =>
        \A s \in Sessions :
            drain[s] => (pc[s] = "done" /\ termSent[s] /\ enc[s] = "reaped")

\* C10: once the client has closed its connection, the session eventually
\* stops its relay and finishes (as long as the server itself runs).
C10_ClientCloseEndsSession ==
    \A s \in Sessions :
        (client[s] = "closed" /\ InRelay(s)) ~> (pc[s] = "done" \/ ~ProcessAlive)

\* C11: only the exact stream path starts a session (200, audio/mpeg,
\* no-cache, a Connection header, then the stream body), only the exact
\* root path gets the status page, and every other path gets 404 and no
\* encoder process.
C11_Routing ==
    \A s \in Sessions :
        path[s] # "none" =>
            /\ path[s] = STREAM_PATH =>
                  /\ status[s] = 200
                  /\ << "Content-Type", "audio/mpeg" >> \in headers[s]
                  /\ << "Cache-Control", "no-cache" >> \in headers[s]
                  /\ \E h \in headers[s] : h[1] = "Connection"
                  /\ ~page[s]
            /\ path[s] = ROOT_PATH =>
                  /\ status[s] = 200
                  /\ page[s]
            /\ path[s] \notin {STREAM_PATH, ROOT_PATH} =>
                  /\ status[s] = 404
                  /\ ~page[s]
            /\ path[s] # STREAM_PATH =>
                  /\ pc[s] = "done"
                  /\ enc[s] = "none"
                  /\ sink[s] = << >>
                  /\ preReads[s] = 0

C11_Witness ==
    \E s \in Sessions :
        /\ path[s] = STREAM_QUERY_PATH
        /\ status[s] = 404
        /\ pc[s] = "done"

\* C12: teardown sends the graceful signal first; the kill is sent only
\* when the 2-unit wait after that signal has expired with the process still
\* running, never when the process was reaped within the wait; a killed
\* process is reaped; and the teardown starts at most once per session.
C12_TeardownState ==
    \A s \in Sessions :
        /\ pc[s] \in {"wait", "kill"} => termSent[s]
        /\ waited[s] > 0 => termSent[s]
        /\ waited[s] <= WAIT_TIMEOUT
        /\ pc[s] = "kill" =>
              /\ waited[s] = WAIT_TIMEOUT
              /\ enc[s] \in {"flowing", "stalled"}
              /\ ~killSent[s]
        /\ killSent[s] =>
              /\ termSent[s]
              /\ waited[s] = WAIT_TIMEOUT
              /\ enc[s] = "reaped"
              /\ pc[s] = "done"

C12_TeardownStep ==
    \A s \in Sessions :
        /\ termSent[s] => termSent'[s] /\ pc'[s] # "terminate"
        /\ killSent[s] => killSent'[s] /\ pc'[s] = "done"
        /\ (pc[s] = "wait" /\ enc'[s] = "reaped") => ~killSent'[s] /\ pc'[s] = "done"
        /\ (~killSent[s] /\ killSent'[s]) => pc[s] = "kill"
        /\ (~termSent[s] /\ termSent'[s]) => pc[s] = "terminate" /\ ~killSent[s]

C12_Teardown == [] C12_TeardownState /\ [][C12_TeardownStep]_vars

C12_Witness ==
    \E s \in Sessions :
        /\ killSent[s]
        /\ termSent[s]
        /\ enc[s] = "reaped"
        /\ waited[s] = WAIT_TIMEOUT

\* The ways a session ends in an error: Popen raised, another exception was
\* raised in the handler, or a write to the client failed.
SessionErrors == {"spawn_error", "error", "disconnect"}

\* Everything a session owns.
SessState(s) ==
    << pc[s], path[s], status[s], enc[s], drain[s], client[s], srcRead[s],
       prebuffer[s], data[s], sink[s], bytes_sent[s], preReads[s],
       steadyReads[s], nWrites[s], firstWrite[s], ended[s], reported[s],
       failDelivered[s], termSent[s], killSent[s], headers[s], page[s],
       waited[s], errbuf[s], drainDied[s], fetched[s] >>

\* C13: an error in one session (spawn failure, write error, any other
\* exception in the handler) stays in that session: the step that raises it
\* changes neither the listener nor any other session, and afterwards the
\* listener still accepts and the other session's next step can be taken.
C13_ErrorStep ==
    \A a \in Sessions :
        (ended[a] = "none" /\ ended'[a] \in SessionErrors) =>
            /\ mainPc' = mainPc
            /\ Listening'
            /\ \A b \in Sessions \ {a} : SessState(b)' = SessState(b)

C13_AfterError ==
    \A a \in Sessions : \A b \in Sessions \ {a} :
        ended[a] \in SessionErrors =>
            /\ Listening
            /\ pc[b] = "idle" => ENABLED DoGET(b, STREAM_PATH)
            /\ (OwnReady(b) \/ pc[b] \in {"popen", "thread_start", "terminate", "wait", "kill"})
                  => ENABLED HandlerStep(b)

C13_ErrorsContained == [] C13_AfterError /\ [][C13_ErrorStep]_vars

C13_Witness ==
    /\ ended["A"] = "error"
    /\ pc["B"] = "write"
    /\ nWrites["B"] >= 2

\* C14: from the first stdout read on and as long as the session's encoder
\* lives, the drain thread is running and keeps consuming stderr whatever
\* the lines contain, so the encoder is never left blocked on a full stderr
\* pipe that nobody reads.
C14_DrainForEncoderLifetime ==
    \A s \in Sessions :
        /\ preReads[s] > 0 => drain[s]
        /\ (InRelay(s) /\ enc[s] \in {"flowing", "stalled", "stderr_blocked"}) =>
              /\ drain[s]
              /\ ~drainDied[s]
        /\ ~(enc[s] = "stderr_blocked" /\ drainDied[s])

\* C15: a failing renderer call is not fatal: when the push of the stream
\* URL fails, main goes on to its sleep loop with the listener running and
\* a stream request is still accepted; when the stop call fails during
\* shutdown, main still goes on to shut the listener down.
C15_AfterFailedPush ==
    (played = "failed" /\ mainPc = "running") =>
        /\ Listening
        /\ serverThread = "running"
        /\ \A s \in clients :
              /\ pc[s] = "idle" => ENABLED DoGET(s, STREAM_PATH)
              /\ pc[s] = "popen" => ENABLED Popen(s)
              /\ OwnReady(s) => ENABLED HandlerStep(s)

C15_FailureStep ==
    /\ (played = "none" /\ played' = "failed") => mainPc' = "running" /\ UNCHANGED serverThread
    /\ (stopResult = "none" /\ stopResult' = "raised") => mainPc' = "shutdown"

C15_AfterFailedStop ==
    (stopResult = "raised" /\ mainPc = "shutdown") => ENABLED Shutdown

C15_RendererFailureNotFatal ==
    /\ [] C15_AfterFailedPush
    /\ [] C15_AfterFailedStop
    /\ [][C15_FailureStep]_vars
    /\ (stopResult = "raised") ~> (serverThread = "stopped")

C15_Witness ==
    /\ played = "failed"
    /\ stopResult = "raised"
    /\ serverThread = "stopped"
    /\ \E s \in Sessions : nWrites[s] >= 1

\* C16: when the listener socket cannot be bound, main ends with a non-zero
\* exit status, the serving thread is never started, no request is ever
\* handled and no call is made on the renderer.
C16_BindFailureAborts ==
    (~bound /\ mainPc # "bind") =>
        /\ mainPc = "bind_failed"
        /\ exitCode > 0
        /\ serverThread = "none"
        /\ ~Listening
        /\ \A s \in Sessions : pc[s] = "idle" /\ path[s] = "none"
        /\ played = "none"
        /\ sonosCalls = << >>
        /\ stopResult = "none"

C16_Witness ==
    /\ mainPc = "bind_failed"
    /\ exitCode = 1
    /\ ~bound

\* The URL the renderer is to be given: the leading http:// replaced by the
\* radio scheme, everything after it as it was; a URL that does not start
\* with http:// unchanged.
ExpectedRadioUrl(url) ==
    IF url[1] = HTTP THEN << RINCON >> \o SubSeq(url, 2, Len(url)) ELSE url

PushOrder == << "stop", "clear_queue", "play_uri" >>

\* C17: the push calls stop, clear queue and play-URI in that order, each
\* at most once; no call follows a call that failed; it returns to main
\* (true exactly when all three calls succeeded, false otherwise) and never
\* raises; the URL played is the stream URL with its http:// prefix, and
\* nothing else, replaced once by the radio scheme.
C17_PushOrderAndResult ==
    /\ played = "none" => sonosCalls = << >>
    /\ played # "none" =>
          /\ mainPc \in {"running", "sonos_stop", "shutdown", "exited"}
          /\ exitCode \in {-1, 0}
          /\ Len(sonosCalls) \in 1..Len(PushOrder)
          /\ \A i \in 1..Len(sonosCalls) : sonosCalls[i][1] = PushOrder[i]
          /\ \A i \in 1..(Len(sonosCalls) - 1) : sonosCalls[i][2] = "ok"
          /\ played = "ok" <=>
                /\ Len(sonosCalls) = Len(PushOrder)
                /\ \A i \in 1..Len(sonosCalls) : sonosCalls[i][2] = "ok"
          /\ played = "failed" <=> sonosCalls[Len(sonosCalls)][2] = "raised"
          /\ Len(sonosCalls) = Len(PushOrder) =>
                SubSeq(sonosCalls[3], 3, Len(sonosCalls[3])) = ExpectedRadioUrl(stream_url)

C17_Witness ==
    /\ played = "ok"
    /\ stream_url = NESTED_URL
    /\ Len(sonosCalls) = Len(PushOrder)
    /\ sonosCalls[3][3] = RINCON
    /\ sonosCalls[3][6] = HTTP

\* C20: a call is made on the renderer by the push only when the listener
\* socket is bound and the serving thread runs; httpd.shutdown() is called
\* only after the renderer stop call has been attempted.
C20_ListenerState ==
    /\ sonosCalls # << >> => bound /\ serverThread # "none"
    /\ serverThread # "none" => bound
    /\ serverThread = "stopped" => stopResult # "none"
    /\ mainPc \in {"shutdown", "exited"} => stopResult # "none"

C20_ListenerStep ==
    /\ sonosCalls' # sonosCalls => bound /\ serverThread = "running" /\ Listening
    /\ stopResult' # stopResult => serverThread = "running" /\ serverThread' = "running"
    /\ (serverThread = "running" /\ serverThread' # "running") => stopResult # "none"

C20_PlayOnlyWithListener == [] C20_ListenerState /\ [][C20_ListenerStep]_vars

C20_Witness ==
    /\ played = "ok"
    /\ stopResult = "ok"
    /\ serverThread = "stopped"
    /\ \E s \in Sessions : nWrites[s] >= 1

\* Bytes taken from the encoder's stdout pipe that the session has not yet
\* written to the client, in the steady-state loop: the chunk in `data` and
\* what the buffer of process.stdout holds.
InLoop(s) == IF pc[s] = "write" THEN Len(data[s]) ELSE 0
InReader(s) == fetched[s] - srcRead[s]
Steady(s) == pc[s] \in {"read", "write"} /\ nWrites[s] >= 1

\* What one steady-state iteration does: a read returns at most chunk_size
\* bytes, a non-empty read is followed by the write of exactly the bytes
\* just read, and no read is issued before that write is over.
C18_LoopStep ==
    \A s \in Sessions :
        /\ (pc[s] = "read" /\ steadyReads'[s] # steadyReads[s] /\ srcRead'[s] # srcRead[s]) =>
              /\ pc'[s] = "write"
              /\ Len(data'[s]) \in 1..chunk_size
              /\ data'[s] = SrcBytes(srcRead[s], srcRead'[s] - srcRead[s])
              /\ UNCHANGED << sink, nWrites >>
        /\ pc[s] = "write" =>
              /\ srcRead'[s] = srcRead[s]
              /\ fetched'[s] = fetched[s]
              /\ data'[s] = data[s]
              /\ steadyReads'[s] = steadyReads[s]
        /\ (pc[s] = "write" /\ pc'[s] = "read") =>
              /\ sink'[s] = sink[s] \o data[s]
              /\ nWrites'[s] = nWrites[s] + 1

C18_LoopState ==
    \A s \in Sessions :
        /\ pc[s] = "write" => Len(data[s]) \in 1..chunk_size
        /\ (pc[s] = "read" /\ ended[s] = "none") => Len(sink[s]) = srcRead[s]
        /\ pc[s] = "write" => Len(sink[s]) + Len(data[s]) = srcRead[s]

\* C18 as stated: one chunk at a time goes from read to write, so the
\* session never holds more than chunk_size bytes of encoder output
\* unwritten.
C18_AtMostOneChunkHeld ==
    /\ [] C18_LoopState
    /\ [][C18_LoopStep]_vars
    /\ [] (\A s \in Sessions : Steady(s) => InLoop(s) + InReader(s) <= chunk_size)

\* C18 amended: one chunk at a time goes from read to write and the loop
\* itself holds at most chunk_size bytes; the buffer of process.stdout holds
\* up to bufsize bytes more.
C18_OneChunkInLoop ==
    /\ [] C18_LoopState
    /\ [][C18_LoopStep]_vars
    /\ [] (\A s \in Sessions : Steady(s) =>
              /\ InLoop(s) <= chunk_size
              /\ InReader(s) \in 0..bufsize)

C18_Witness ==
    \E s \in Sessions :
        /\ pc[s] = "write"
        /\ nWrites[s] >= 1
        /\ InReader(s) = bufsize
        /\ InLoop(s) + InReader(s) > chunk_size

\* The total length of the client writes that returned without an error.
CompletedWrites(s) ==
    IF failDelivered[s] >= 0 THEN failDelivered[s] ELSE Len(sink[s])

\* C19: bytes_sent is the total length of the completed client writes, it
\* never decreases, and it never exceeds the bytes read from the encoder.
C19_Counts ==
    \A s \in Sessions :
        /\ bytes_sent[s] = CompletedWrites(s)
        /\ bytes_sent[s] <= srcRead[s]
        /\ bytes_sent[s] <= Len(sink[s])

C19_BytesSentIsCompletedWrites ==
    /\ [] C19_Counts
    /\ [][\A s \in Sessions : bytes_sent'[s] >= bytes_sent[s]]_vars

C19_Witness ==
    \E s \in Sessions :
        /\ ended[s] = "disconnect"
        /\ nWrites[s] >= 3
        /\ bytes_sent[s] > prebuffer_size
        /\ Len(sink[s]) > bytes_sent[s]

====
